---- MODULE Spec2Model ----
(***************************************************************************)
(* CacheManager (SingletonPattern.cpp): a lazily constructed process-wide  *)
(* singleton holding an unordered_map<string,string> guarded by one mutex. *)
(* Threads call getInstance(), then put/get/clear/size/print through the   *)
(* reference they were handed.  Each statement that touches shared state   *)
(* (the once_flag, the instance pointer, the mutex, the map) is one step.  *)
(***************************************************************************)
EXTENDS Integers, Sequences, FiniteSets, TLC

\* ---------------------------------------------------------------- bounds
NumThreads == 2

Threads == 1..NumThreads

\* std::string keys and values; "" is the empty string.
Keys == {"", "a", "b"}
Values == {"", "x"}

\* Keys handed to the workers of the distinct-key scenario, one per thread.
DistinctKeys == <<"a", "b", "c", "d">>

Null == 0
Free == 0

VARIABLES
    flag,       \* initInstanceFlag: "uninit", "running" (an active execution), "done"
    instance,   \* CacheManager::instance: Null or an index into heap
    heap,       \* the CacheManager objects created by new, in order of creation
    pc,         \* pc[t]: where thread t is
    handle,     \* handle[t]: the reference thread t got from getInstance (Null: none yet)
    key,        \* key[t]: the key argument of t's call in progress
    val,        \* val[t]: the value argument of t's call in progress
    ret,        \* ret[t]: the string get() is about to return
    cnt,        \* cnt[t]: the number size() is about to return
    out,        \* out[t]: the (key, value) lines print() has written so far
    lastPut,    \* history: key -> [v, by], the value and the thread of the latest put on
                \*          that key that took effect since the latest clear took effect,
                \*          whatever handle the put or the clear went through
    wiped,      \* history: the keys the latest clear removed, while no put took effect since
    lateFor,    \* history: lateFor[u], for u's put or clear in progress: the threads whose
                \*          print call in progress had begun before u's call did
    late,       \* history: late[t], for t's print in progress: the keys whose entry was
                \*          written by a put that was called after t's print call began
    script      \* script[t]: the one put worker t is to issue (distinct-key scenario only)

vars == <<flag, instance, heap, pc, handle, key, val, ret, cnt, out, lastPut, wiped, lateFor, late, script>>

\* ------------------------------------------------- std::unordered_map
EmptyMap == [k \in {} |-> ""]

\* mutant: a lookup that inserts nothing (find in place of operator[]), so that
\* the assignment reaches no element when the key is new
MapIndexNoInsert(c, k) == c

\* operator[]: a reference to the mapped value, default-inserting "" if absent
MapIndex(c, k) == [x \in (DOMAIN c) \cup {k} |-> IF x \in DOMAIN c THEN c[x] ELSE ""]

\* mutant: the value is assigned to every element
MapAssignAll(c, k, v) == [x \in DOMAIN c |-> v]

\* mutant: insert semantics, an element that already holds a value keeps it
MapAssignKeepOld(c, k, v) == IF c[k] = "" THEN [c EXCEPT ![k] = v] ELSE c

\* assignment through the reference operator[] returned
MapAssign(c, k, v) == [c EXCEPT ![k] = v]

\* mutant: the not-found branch returns a non-empty marker
MapFindAbsentMarker(c, k) == IF k \in DOMAIN c THEN c[k] ELSE "x"

\* mutant: the lookup always takes the not-found branch
MapFindMissed(c, k) == ""

\* find(key) then it->second, or "" when find returns end()
MapFindOrEmpty(c, k) == IF k \in DOMAIN c THEN c[k] ELSE ""

MapSize(c) == Cardinality(DOMAIN c)

MapEntries(c) == {<<k, c[k]>> : k \in DOMAIN c}

\* ------------------------------------------------------ the object
\* CacheManager() = default: an empty map and an unlocked mutex
NewCacheManager == [cache |-> EmptyMap, mutex |-> Free]

\* the object a thread's reference designates
This(t) == heap[handle[t]]

Cache(t) == This(t).cache

SetCache(t, c) == heap' = [heap EXCEPT ![handle[t]].cache = c]

Idle(t) == pc[t] = "idle"

\* the history after a put of v on k by thread t took effect
Recorded(k, v, t) ==
    [x \in (DOMAIN lastPut) \cup {k} |-> IF x = k THEN [v |-> v, by |-> t] ELSE lastPut[x]]

\* what the history says the store holds
Expected == {<<k, lastPut[k].v>> : k \in DOMAIN lastPut}

Goto(t, l) == pc' = [pc EXCEPT ![t] = l]

\* the threads that are inside a print() call
PrintsBegun == {p \in Threads : pc[p] \in {"print_lock", "print_loop", "print_unlock"}}

\* mutant: the guard takes the mutex without waiting for its holder to release it
LockGuardNoWait(t, next) ==
    /\ heap' = [heap EXCEPT ![handle[t]].mutex = t]
    /\ Goto(t, next)

\* std::lock_guard<std::mutex> lock(cacheMutex): blocks until the mutex is free
LockGuard(t, next) ==
    /\ This(t).mutex = Free
    /\ heap' = [heap EXCEPT ![handle[t]].mutex = t]
    /\ Goto(t, next)

\* mutant: the function returns with the mutex still locked
UnlockLeak(t) ==
    /\ heap' = heap
    /\ Goto(t, "idle")
    /\ key' = [key EXCEPT ![t] = ""]
    /\ val' = [val EXCEPT ![t] = ""]
    /\ ret' = [ret EXCEPT ![t] = ""]
    /\ cnt' = [cnt EXCEPT ![t] = 0]
    /\ out' = [out EXCEPT ![t] = {}]

\* ~lock_guard at the end of the scope, then the return to the caller,
\* whose frame (arguments, result, output) is dropped
Unlock(t) ==
    /\ heap' = [heap EXCEPT ![handle[t]].mutex = Free]
    /\ Goto(t, "idle")
    /\ key' = [key EXCEPT ![t] = ""]
    /\ val' = [val EXCEPT ![t] = ""]
    /\ ret' = [ret EXCEPT ![t] = ""]
    /\ cnt' = [cnt EXCEPT ![t] = 0]
    /\ out' = [out EXCEPT ![t] = {}]

\* ------------------------------------------------------ std::call_once
\* mutant: a plain "if not done" test in place of call_once; a caller that finds
\* an execution under way runs the callable too
CallOnceRacy(f) == IF f = "done" THEN "skip" ELSE "run"

\* mutant: a caller that finds an execution under way does not wait for it
CallOnceNoWait(f) == IF f = "uninit" THEN "run" ELSE "skip"

\* mutant: the flag is never consulted (a flag that is not shared between calls)
CallOnceAlwaysRun(f) == "run"

\* What call_once does with the flag: run the callable, wait for the active
\* execution, or return at once.
CallOnceDecision(f) ==
    CASE f = "uninit" -> "run"
      [] f = "running" -> "wait"
      [] f = "done" -> "skip"

\* ------------------------------------------------------ getInstance
GetInstanceCall(t) ==
    /\ Idle(t)
    /\ Goto(t, "call_once")
    /\ UNCHANGED <<flag, instance, heap, handle, key, val, ret, cnt, out, lastPut, wiped, lateFor, late, script>>

CallOnceEnter(t) ==
    /\ pc[t] = "call_once"
    /\ CallOnceDecision(flag) = "run"
    /\ flag' = "running"
    /\ Goto(t, "init")
    /\ UNCHANGED <<instance, heap, handle, key, val, ret, cnt, out, lastPut, wiped, lateFor, late, script>>

\* mutant: the fast path of getInstance() goes through the store's mutex
CallOnceSkipUnderMutex(t) ==
    /\ pc[t] = "call_once"
    /\ CallOnceDecision(flag) = "skip"
    /\ heap[instance].mutex = Free
    /\ Goto(t, "deref")
    /\ UNCHANGED <<flag, instance, heap, handle, key, val, ret, cnt, out, lastPut, wiped, lateFor, late, script>>

CallOnceSkip(t) ==
    /\ pc[t] = "call_once"
    /\ CallOnceDecision(flag) = "skip"
    /\ Goto(t, "deref")
    /\ UNCHANGED <<flag, instance, heap, handle, key, val, ret, cnt, out, lastPut, wiped, lateFor, late, script>>

\* instance = new CacheManager();
InitSingleton(t) ==
    /\ pc[t] = "init"
    /\ heap' = Append(heap, NewCacheManager)
    /\ instance' = Len(heap) + 1
    /\ Goto(t, "init_done")
    /\ UNCHANGED <<flag, handle, key, val, ret, cnt, out, lastPut, wiped, lateFor, late, script>>

\* mutant: the flag is left as after an exceptional exit of the callable, unset
CallOnceFinishUnset(t) ==
    /\ pc[t] = "init_done"
    /\ flag' = "uninit"
    /\ Goto(t, "deref")
    /\ UNCHANGED <<instance, heap, handle, key, val, ret, cnt, out, lastPut, wiped, lateFor, late, script>>

\* the callable returned: call_once marks the flag and releases the waiters
CallOnceFinish(t) ==
    /\ pc[t] = "init_done"
    /\ flag' = "done"
    /\ Goto(t, "deref")
    /\ UNCHANGED <<instance, heap, handle, key, val, ret, cnt, out, lastPut, wiped, lateFor, late, script>>

\* return *instance;
GetInstanceReturn(t) ==
    /\ pc[t] = "deref"
    /\ handle' = [handle EXCEPT ![t] = instance]
    /\ Goto(t, "idle")
    /\ UNCHANGED <<flag, instance, heap, key, val, ret, cnt, out, lastPut, wiped, lateFor, late, script>>

\* ------------------------------------------------------ put
\* mutant: put without the empty-key check
PutEnterNoCheck(t, k, v) ==
    /\ Idle(t)
    /\ handle[t] # Null
    /\ Goto(t, "put_lock")
    /\ key' = [key EXCEPT ![t] = k]
    /\ val' = [val EXCEPT ![t] = v]
    /\ lateFor' = [lateFor EXCEPT ![t] = PrintsBegun]
    /\ UNCHANGED <<flag, instance, heap, handle, ret, cnt, out, lastPut, wiped, late>>

\* mutant: the mutex is locked by hand before the empty-key check, and the throw
\* leaves it locked
PutEnterThrowsLocked(t, k, v) ==
    /\ Idle(t)
    /\ handle[t] # Null
    /\ IF k = ""
         THEN /\ This(t).mutex = Free
              /\ heap' = [heap EXCEPT ![handle[t]].mutex = t]
              /\ Goto(t, "put_throw")
              /\ UNCHANGED <<key, val, lateFor>>
         ELSE /\ Goto(t, "put_lock")
              /\ key' = [key EXCEPT ![t] = k]
              /\ val' = [val EXCEPT ![t] = v]
              /\ lateFor' = [lateFor EXCEPT ![t] = PrintsBegun]
              /\ UNCHANGED heap
    /\ UNCHANGED <<flag, instance, handle, ret, cnt, out, lastPut, wiped, late>>

\* the call and its empty-key check: throw std::invalid_argument or go on to lock
PutEnter(t, k, v) ==
    /\ Idle(t)
    /\ handle[t] # Null
    /\ IF k = ""
         THEN /\ Goto(t, "put_throw")
              /\ UNCHANGED <<key, val, lateFor>>
         ELSE /\ Goto(t, "put_lock")
              /\ key' = [key EXCEPT ![t] = k]
              /\ val' = [val EXCEPT ![t] = v]
              /\ lateFor' = [lateFor EXCEPT ![t] = PrintsBegun]
    /\ UNCHANGED <<flag, instance, heap, handle, ret, cnt, out, lastPut, wiped, late>>

PutCall(t, k, v) ==
    /\ PutEnter(t, k, v)
    /\ UNCHANGED script

PutLock(t) ==
    /\ pc[t] = "put_lock"
    /\ LockGuard(t, "put_index")
    /\ UNCHANGED <<flag, instance, handle, key, val, ret, cnt, out, lastPut, wiped, lateFor, late, script>>

\* cache[key]: the element is default-inserted when the key is new
PutIndex(t) ==
    /\ pc[t] = "put_index"
    /\ SetCache(t, MapIndex(Cache(t), key[t]))
    /\ Goto(t, "put_assign")
    /\ UNCHANGED <<flag, instance, handle, key, val, ret, cnt, out, lastPut, wiped, lateFor, late, script>>

\* ... = value: the put takes effect
PutAssign(t) ==
    /\ pc[t] = "put_assign"
    /\ SetCache(t, MapAssign(Cache(t), key[t], val[t]))
    /\ lastPut' = Recorded(key[t], val[t], t)
    /\ wiped' = {}
    /\ late' = [p \in Threads |-> IF p \in lateFor[t] THEN late[p] \cup {key[t]} ELSE late[p]]
    /\ Goto(t, "put_unlock")
    /\ UNCHANGED <<flag, instance, handle, key, val, ret, cnt, out, lateFor, script>>

PutUnlock(t) ==
    /\ pc[t] = "put_unlock"
    /\ Unlock(t)
    /\ lateFor' = [lateFor EXCEPT ![t] = {}]
    /\ UNCHANGED <<flag, instance, handle, lastPut, wiped, late, script>>

\* ------------------------------------------------------ get
GetCall(t, k) ==
    /\ Idle(t)
    /\ handle[t] # Null
    /\ IF k = ""
         THEN /\ Goto(t, "get_throw")
              /\ UNCHANGED key
         ELSE /\ Goto(t, "get_lock")
              /\ key' = [key EXCEPT ![t] = k]
    /\ UNCHANGED <<flag, instance, heap, handle, val, ret, cnt, out, lastPut, wiped, lateFor, late, script>>

GetLock(t) ==
    /\ pc[t] = "get_lock"
    /\ LockGuard(t, "get_find")
    /\ UNCHANGED <<flag, instance, handle, key, val, ret, cnt, out, lastPut, wiped, lateFor, late, script>>

\* mutant: return cache[key], which default-inserts a key that is not there
GetFindIndexing(t) ==
    /\ pc[t] = "get_find"
    /\ SetCache(t, MapIndex(Cache(t), key[t]))
    /\ ret' = [ret EXCEPT ![t] = MapIndex(Cache(t), key[t])[key[t]]]
    /\ Goto(t, "get_unlock")
    /\ UNCHANGED <<flag, instance, handle, key, val, cnt, out, lastPut, wiped, lateFor, late, script>>

\* find(key), then it->second or ""
GetFind(t) ==
    /\ pc[t] = "get_find"
    /\ ret' = [ret EXCEPT ![t] = MapFindOrEmpty(Cache(t), key[t])]
    /\ Goto(t, "get_unlock")
    /\ UNCHANGED <<flag, instance, heap, handle, key, val, cnt, out, lastPut, wiped, lateFor, late, script>>

GetUnlock(t) ==
    /\ pc[t] = "get_unlock"
    /\ Unlock(t)
    /\ UNCHANGED <<flag, instance, handle, lastPut, wiped, lateFor, late, script>>

\* the caller of a put or get that threw catches std::invalid_argument and goes on
Caught(t) ==
    /\ pc[t] \in {"put_throw", "get_throw"}
    /\ Goto(t, "idle")
    /\ UNCHANGED <<flag, instance, heap, handle, key, val, ret, cnt, out, lastPut, wiped, lateFor, late, script>>

\* ------------------------------------------------------ clear
ClearCall(t) ==
    /\ Idle(t)
    /\ handle[t] # Null
    /\ Goto(t, "clear_lock")
    /\ lateFor' = [lateFor EXCEPT ![t] = PrintsBegun]
    /\ UNCHANGED <<flag, instance, heap, handle, key, val, ret, cnt, out, lastPut, wiped, late, script>>

ClearLock(t) ==
    /\ pc[t] = "clear_lock"
    /\ LockGuard(t, "clear_body")
    /\ UNCHANGED <<flag, instance, handle, key, val, ret, cnt, out, lastPut, wiped, lateFor, late, script>>

\* mutant: clear() erases one element only
ClearBodyEraseOne(t) ==
    /\ pc[t] = "clear_body"
    /\ \E d \in DOMAIN Cache(t) \cup {""} :
          SetCache(t, [x \in (DOMAIN Cache(t)) \ {d} |-> Cache(t)[x]])
    /\ lastPut' = EmptyMap
    /\ wiped' = DOMAIN lastPut
    /\ late' = [p \in Threads |-> {}]
    /\ Goto(t, "clear_unlock")
    /\ UNCHANGED <<flag, instance, handle, key, val, ret, cnt, out, lateFor, script>>

\* cache.clear(): the clear takes effect
ClearBody(t) ==
    /\ pc[t] = "clear_body"
    /\ SetCache(t, EmptyMap)
    /\ lastPut' = EmptyMap
    /\ wiped' = DOMAIN lastPut
    /\ late' = [p \in Threads |-> {}]
    /\ Goto(t, "clear_unlock")
    /\ UNCHANGED <<flag, instance, handle, key, val, ret, cnt, out, lateFor, script>>

ClearUnlock(t) ==
    /\ pc[t] = "clear_unlock"
    /\ Unlock(t)
    /\ lateFor' = [lateFor EXCEPT ![t] = {}]
    /\ UNCHANGED <<flag, instance, handle, lastPut, wiped, late, script>>

\* ------------------------------------------------------ size
SizeCall(t) ==
    /\ Idle(t)
    /\ handle[t] # Null
    /\ Goto(t, "size_lock")
    /\ UNCHANGED <<flag, instance, heap, handle, key, val, ret, cnt, out, lastPut, wiped, lateFor, late, script>>

\* mutant: size() reads cache.size() without taking the mutex
SizeLockMissing(t) ==
    /\ pc[t] = "size_lock"
    /\ Goto(t, "size_body")
    /\ UNCHANGED <<flag, instance, heap, handle, key, val, ret, cnt, out, lastPut, wiped, lateFor, late, script>>

SizeLock(t) ==
    /\ pc[t] = "size_lock"
    /\ LockGuard(t, "size_body")
    /\ UNCHANGED <<flag, instance, handle, key, val, ret, cnt, out, lastPut, wiped, lateFor, late, script>>

\* return cache.size();
SizeBody(t) ==
    /\ pc[t] = "size_body"
    /\ cnt' = [cnt EXCEPT ![t] = MapSize(Cache(t))]
    /\ Goto(t, "size_unlock")
    /\ UNCHANGED <<flag, instance, heap, handle, key, val, ret, out, lastPut, wiped, lateFor, late, script>>

SizeUnlock(t) ==
    /\ pc[t] = "size_unlock"
    /\ Unlock(t)
    /\ UNCHANGED <<flag, instance, handle, lastPut, wiped, lateFor, late, script>>

\* ------------------------------------------------------ print
PrintCall(t) ==
    /\ Idle(t)
    /\ handle[t] # Null
    /\ Goto(t, "print_lock")
    /\ UNCHANGED <<flag, instance, heap, handle, key, val, ret, cnt, out, lastPut, wiped, lateFor, late, script>>

\* mutant: print() walks the map without taking the mutex
PrintLockMissing(t) ==
    /\ pc[t] = "print_lock"
    /\ Goto(t, "print_loop")
    /\ UNCHANGED <<flag, instance, heap, handle, key, val, ret, cnt, out, lastPut, wiped, lateFor, late, script>>

PrintLock(t) ==
    /\ pc[t] = "print_lock"
    /\ LockGuard(t, "print_loop")
    /\ UNCHANGED <<flag, instance, handle, key, val, ret, cnt, out, lastPut, wiped, lateFor, late, script>>

\* the keys the range-for has not visited yet
Unlisted(t) == (DOMAIN Cache(t)) \ {e[1] : e \in out[t]}

\* if (cache.empty()) "  (empty)": no entry line is written
PrintEmpty(t) ==
    /\ pc[t] = "print_loop"
    /\ out[t] = {}
    /\ DOMAIN Cache(t) = {}
    /\ Goto(t, "print_unlock")
    /\ UNCHANGED <<flag, instance, heap, handle, key, val, ret, cnt, out, lastPut, wiped, lateFor, late, script>>

\* mutant: the range-for is left after its first turn
PrintEntryStopsEarly(t) ==
    /\ pc[t] = "print_loop"
    /\ \E k \in Unlisted(t) :
          /\ out' = [out EXCEPT ![t] = out[t] \cup {<<k, Cache(t)[k]>>}]
          /\ Goto(t, "print_unlock")
    /\ UNCHANGED <<flag, instance, heap, handle, key, val, ret, cnt, lastPut, wiped, lateFor, late, script>>

\* one turn of for (const auto& [key, value] : cache): the order is the map's own
PrintEntry(t) ==
    /\ pc[t] = "print_loop"
    /\ \E k \in Unlisted(t) :
          /\ out' = [out EXCEPT ![t] = out[t] \cup {<<k, Cache(t)[k]>>}]
          /\ Goto(t, IF Unlisted(t) = {k} THEN "print_unlock" ELSE "print_loop")
    /\ UNCHANGED <<flag, instance, heap, handle, key, val, ret, cnt, lastPut, wiped, lateFor, late, script>>

PrintUnlock(t) ==
    /\ pc[t] = "print_unlock"
    /\ Unlock(t)
    /\ lateFor' = [u \in Threads |-> lateFor[u] \ {t}]
    /\ late' = [late EXCEPT ![t] = {}]
    /\ UNCHANGED <<flag, instance, handle, lastPut, wiped, script>>

\* ------------------------------------------------------ the program
Init ==
    /\ flag = "uninit"
    /\ instance = Null
    /\ heap = <<>>
    /\ pc = [t \in Threads |-> "idle"]
    /\ handle = [t \in Threads |-> Null]
    /\ key = [t \in Threads |-> ""]
    /\ val = [t \in Threads |-> ""]
    /\ ret = [t \in Threads |-> ""]
    /\ cnt = [t \in Threads |-> 0]
    /\ out = [t \in Threads |-> {}]
    /\ lastPut = EmptyMap
    /\ wiped = {}
    /\ lateFor = [t \in Threads |-> {}]
    /\ late = [t \in Threads |-> {}]
    /\ script = [t \in Threads |-> <<>>]

Next ==
    \E t \in Threads :
        \/ GetInstanceCall(t)
        \/ CallOnceEnter(t)
        \/ CallOnceSkip(t)
        \/ InitSingleton(t)
        \/ CallOnceFinish(t)
        \/ GetInstanceReturn(t)
        \/ \E k \in Keys, v \in Values : PutCall(t, k, v)
        \/ PutLock(t)
        \/ PutIndex(t)
        \/ PutAssign(t)
        \/ PutUnlock(t)
        \/ \E k \in Keys : GetCall(t, k)
        \/ GetLock(t)
        \/ GetFind(t)
        \/ GetUnlock(t)
        \/ Caught(t)
        \/ ClearCall(t)
        \/ ClearLock(t)
        \/ ClearBody(t)
        \/ ClearUnlock(t)
        \/ SizeCall(t)
        \/ SizeLock(t)
        \/ SizeBody(t)
        \/ SizeUnlock(t)
        \/ PrintCall(t)
        \/ PrintLock(t)
        \/ PrintEmpty(t)
        \/ PrintEntry(t)
        \/ PrintUnlock(t)

Spec == Init /\ [][Next]_vars

\* ------------------------------------------------------ fair scheduling
\* a step of thread t inside a call that does not wait for the mutex
Step(t) ==
    \/ CallOnceEnter(t) \/ CallOnceSkip(t) \/ InitSingleton(t) \/ CallOnceFinish(t)
    \/ GetInstanceReturn(t)
    \/ PutIndex(t) \/ PutAssign(t) \/ PutUnlock(t)
    \/ GetFind(t) \/ GetUnlock(t)
    \/ Caught(t)
    \/ ClearBody(t) \/ ClearUnlock(t)
    \/ SizeBody(t) \/ SizeUnlock(t)
    \/ PrintEmpty(t) \/ PrintEntry(t) \/ PrintUnlock(t)

\* thread t gets the mutex it is waiting for
Acquire(t) == PutLock(t) \/ GetLock(t) \/ ClearLock(t) \/ SizeLock(t) \/ PrintLock(t)

\* Every thread inside a call keeps running (weak fairness), and a thread waiting
\* for a mutex that is free again and again gets it (strong fairness: a fair
\* mutex).  Nothing obliges a thread to make a new call.
FairSpec ==
    /\ Spec
    /\ \A t \in Threads : WF_vars(Step(t)) /\ SF_vars(Acquire(t))

\* ------------------------------------------- the distinct-key scenario
\* The instance exists and is empty, every thread holds the reference, and
\* worker t is to put one value on its own key DistinctKeys[t].
InitC9 ==
    /\ flag = "done"
    /\ instance = 1
    /\ heap = <<NewCacheManager>>
    /\ pc = [t \in Threads |-> "idle"]
    /\ handle = [t \in Threads |-> 1]
    /\ key = [t \in Threads |-> ""]
    /\ val = [t \in Threads |-> ""]
    /\ ret = [t \in Threads |-> ""]
    /\ cnt = [t \in Threads |-> 0]
    /\ out = [t \in Threads |-> {}]
    /\ lastPut = EmptyMap
    /\ wiped = {}
    /\ lateFor = [t \in Threads |-> {}]
    /\ late = [t \in Threads |-> {}]
    /\ \E vs \in [Threads -> Values] :
          script = [t \in Threads |-> [k |-> DistinctKeys[t], v |-> vs[t], issued |-> FALSE]]

\* worker t issues its put
WorkerPut(t) ==
    /\ ~script[t].issued
    /\ PutEnter(t, script[t].k, script[t].v)
    /\ script' = [script EXCEPT ![t].issued = TRUE]

\* every worker's put has been issued and has returned
AllPutsDone ==
    \A t \in Threads :
        script[t].issued /\ pc[t] \notin {"put_lock", "put_index", "put_assign", "put_unlock"}

\* after the workers are done: size() and get(key_i)
JoinedSize(t) ==
    /\ AllPutsDone
    /\ SizeCall(t)

JoinedGet(t) ==
    /\ AllPutsDone
    /\ \E u \in Threads : GetCall(t, script[u].k)

NextC9 ==
    \E t \in Threads :
        \/ WorkerPut(t)
        \/ PutLock(t)
        \/ PutIndex(t)
        \/ PutAssign(t)
        \/ PutUnlock(t)
        \/ JoinedSize(t)
        \/ SizeLock(t)
        \/ SizeBody(t)
        \/ SizeUnlock(t)
        \/ JoinedGet(t)
        \/ GetLock(t)
        \/ GetFind(t)
        \/ GetUnlock(t)

SpecC9 == InitC9 /\ [][NextC9]_vars

\* ================================================================ claims

\* the program points inside a lock_guard's scope
InCS ==
    {"put_index", "put_assign", "put_unlock", "get_find", "get_unlock", "clear_body",
     "clear_unlock", "size_body", "size_unlock", "print_loop", "print_unlock"}

\* what get(k) returns on the sequential map the history describes
SeqGet(k) == IF k \in DOMAIN lastPut THEN lastPut[k].v ELSE ""

\* C1: however many threads call getInstance() while the gate is uninitialized,
\* and however their steps interleave, initSingleton constructs a CacheManager
\* at most once, and exactly once as soon as any call has returned.
C1_ConstructedOnce ==
    /\ Len(heap) <= 1
    /\ (\E t \in Threads : handle[t] # Null) => Len(heap) = 1

\* two first-time calls overlap: one has constructed and is still inside
\* call_once, the other is held at call_once
C1_Witness ==
    \E t1, t2 \in Threads :
        /\ t1 # t2
        /\ pc[t1] = "init_done"
        /\ pc[t2] = "call_once"
        /\ handle[t1] = Null /\ handle[t2] = Null
        /\ Len(heap) = 1

\* C2: every getInstance() call returns the same store: all references are
\* the one instance, what was put or cleared through any reference is what every
\* reference's store holds, and a get through one reference returns the value
\* another thread put through its own.
C2_SameStore ==
    /\ \A t \in Threads : handle[t] # Null => handle[t] = instance
    /\ \A t1, t2 \in Threads :
          (handle[t1] # Null /\ handle[t2] # Null) => handle[t1] = handle[t2]
    /\ \A t \in Threads :
          (handle[t] # Null /\ This(t).mutex = Free) => MapEntries(Cache(t)) = Expected
    /\ \A t \in Threads :
          (pc[t] = "get_unlock" /\ key[t] \in DOMAIN lastPut /\ lastPut[key[t]].by # t)
              => ret[t] = lastPut[key[t]].v

\* a get by one thread has read the value another thread put
C2_Witness ==
    \E t1, t2 \in Threads :
        /\ t1 # t2
        /\ handle[t1] # Null /\ handle[t2] # Null
        /\ pc[t2] = "get_unlock"
        /\ key[t2] \in DOMAIN lastPut
        /\ lastPut[key[t2]] = [v |-> "x", by |-> t1]
        /\ ret[t2] = "x"

\* C3: put, get, clear, size and print are linearizable.  Each call has one
\* step between its invocation and its return (the assignment, the find, the
\* clear, the size read, the end of the listing) at which it takes effect on the
\* sequential map of the history: what it returns or lists is that map's answer
\* there, and the map changes at these steps only.
C3_Linearizable ==
    \A t \in Threads :
        /\ pc[t] = "put_unlock" =>
              (key[t] \in DOMAIN lastPut /\ lastPut[key[t]] = [v |-> val[t], by |-> t])
        /\ pc[t] = "get_unlock" => ret[t] = SeqGet(key[t])
        /\ pc[t] = "clear_unlock" => lastPut = EmptyMap
        /\ pc[t] = "size_unlock" => cnt[t] = Cardinality(DOMAIN lastPut)
        /\ pc[t] = "print_unlock" => out[t] = Expected

\* a size() has answered 1 while another thread's put or clear, invoked but not
\* yet past the mutex, is in flight
C3_Witness ==
    \E t1, t2 \in Threads :
        /\ t1 # t2
        /\ pc[t1] = "size_unlock" /\ cnt[t1] = 1
        /\ pc[t2] \in {"put_lock", "clear_lock"}

\* C4: at most one thread is inside a section that reads or writes the map,
\* and that thread holds the store's mutex.
C4_MutualExclusion ==
    /\ \A t1, t2 \in Threads : (pc[t1] \in InCS /\ pc[t2] \in InCS) => t1 = t2
    /\ \A t \in Threads : pc[t] \in InCS => This(t).mutex = t

\* a get on a key is held at the mutex while a put on that key is between its
\* insertion and its assignment
C4_Witness ==
    \E t1, t2 \in Threads :
        /\ pc[t1] = "put_assign"
        /\ pc[t2] = "get_lock"
        /\ key[t1] = key[t2]

\* C5: for a non-empty key k, put(k, v) followed by get(k), with no other put
\* on k and no clear taking effect in between, returns v: right after the put's
\* assignment a lookup of k in the store gives v, and a get whose key's latest
\* put since the latest clear wrote v returns v.
C5_PutGetRoundTrip ==
    \A t \in Threads :
        /\ pc[t] = "put_unlock" => MapFindOrEmpty(Cache(t), key[t]) = val[t]
        /\ (pc[t] = "get_unlock" /\ key[t] \in DOMAIN lastPut) => ret[t] = lastPut[key[t]].v

\* a thread's get has read the "x" it put itself, with the other key stored too
C5_Witness ==
    \E t \in Threads :
        /\ pc[t] = "get_unlock"
        /\ DOMAIN lastPut = {"a", "b"}
        /\ lastPut[key[t]] = [v |-> "x", by |-> t]
        /\ ret[t] = "x"

\* C6: a put on a key that is already present overwrites: operator[] inserts
\* nothing, and the assignment leaves the number of entries (what size()
\* returns) as it was and makes the key's value (what get returns) the value put.
C6_Overwrite ==
    [][\A t \in Threads :
          /\ (pc[t] = "put_index" /\ pc'[t] = "put_assign"
                /\ key[t] \in DOMAIN heap[handle[t]].cache)
               => heap'[handle[t]].cache = heap[handle[t]].cache
          /\ (pc[t] = "put_assign" /\ pc'[t] = "put_unlock")
               => /\ MapSize(heap'[handle[t]].cache) = MapSize(heap[handle[t]].cache)
                  /\ MapFindOrEmpty(heap'[handle[t]].cache, key[t]) = val[t]]_vars

\* a put of "" on a key that holds "x" is about to assign, both keys stored
C6_Witness ==
    \E t \in Threads :
        /\ pc[t] = "put_assign"
        /\ DOMAIN lastPut = {"a", "b"}
        /\ lastPut[key[t]].v = "x"
        /\ Cache(t)[key[t]] = "x"
        /\ val[t] = ""

\* C7: put("", x) and get("") fail with std::invalid_argument, and neither the
\* failing call nor the caller's handling of the exception changes any key or
\* value of the store.
C7_EmptyKeyRejected ==
    [][\A t \in Threads :
          /\ (\E v \in Values : PutCall(t, "", v))
               => (pc'[t] = "put_throw" /\ heap' = heap /\ lastPut' = lastPut)
          /\ GetCall(t, "")
               => (pc'[t] = "get_throw" /\ heap' = heap /\ lastPut' = lastPut)
          /\ Caught(t) => (heap' = heap /\ lastPut' = lastPut)]_vars

\* a put and a get have both thrown on a store that holds an entry
C7_Witness ==
    \E t1, t2 \in Threads :
        /\ pc[t1] = "put_throw"
        /\ pc[t2] = "get_throw"
        /\ MapEntries(Cache(t1)) = {<<"a", "x">>}

\* C8: once a clear has taken effect and no put has since, size() returns 0
\* and get(k) returns "" (the absent result) for every key k the clear removed.
C8_ClearEmpties ==
    \A t \in Threads :
        /\ pc[t] = "clear_unlock" => MapSize(Cache(t)) = 0
        /\ (pc[t] = "size_unlock" /\ wiped # {}) => cnt[t] = 0
        /\ (pc[t] = "get_unlock" /\ key[t] \in wiped) => ret[t] = ""

\* a get has looked up one of the two keys a clear removed
C8_Witness ==
    \E t \in Threads :
        /\ pc[t] = "get_unlock"
        /\ wiped = {"a", "b"}
        /\ key[t] \in wiped
        /\ ret[t] = ""

\* C9 (under SpecC9): from an empty store, when every one of the NumThreads
\* workers has completed one put on its own key, under every interleaving of the
\* puts, the store holds exactly the workers' pairs, size() returns NumThreads
\* and get(key_i) returns value_i.
C9_NoPutLost ==
    AllPutsDone =>
        /\ MapEntries(heap[instance].cache) = {<<script[u].k, script[u].v>> : u \in Threads}
        /\ \A t \in Threads :
              /\ pc[t] = "size_unlock" => cnt[t] = NumThreads
              /\ pc[t] = "get_unlock" =>
                    \E u \in Threads : script[u].k = key[t] /\ script[u].v = ret[t]

\* after all the puts a size() has answered NumThreads, and a get by another
\* thread is on its way
C9_Witness ==
    /\ AllPutsDone
    /\ \E t1, t2 \in Threads :
          /\ pc[t1] = "size_unlock" /\ cnt[t1] = NumThreads
          /\ pc[t2] = "get_lock"
    /\ \E u \in Threads : script[u].v = "x"

\* C10: the listing print() writes is the content of the store at one instant:
\* every line written so far is an entry of the store as the puts and clears that
\* took effect left it (its value the one the latest put on its key assigned),
\* and the finished listing is exactly that content.
C10_SnapshotAtomic ==
    \A t \in Threads :
        /\ pc[t] \in {"print_loop", "print_unlock"} =>
              (out[t] \subseteq Expected /\ out[t] \subseteq MapEntries(Cache(t)))
        /\ pc[t] = "print_unlock" =>
              (out[t] = Expected /\ out[t] = MapEntries(Cache(t)))

\* a listing of two entries is complete while a put that would change one of
\* its lines is held at the mutex
C10_Witness ==
    \E t1, t2 \in Threads :
        /\ pc[t1] = "print_unlock"
        /\ Cardinality(out[t1]) = 2
        /\ pc[t2] = "put_lock"
        /\ <<key[t2], val[t2]>> \notin out[t1]

\* C11 as stated: no put whose call started after the print call began appears
\* in that print's listing.
C11_LatePutNeverListed ==
    \A t \in Threads :
        pc[t] = "print_unlock" => \A e \in out[t] : e[1] \notin late[t]

\* C11 as amended: the listing is the content of the store at the instant
\* print() holds the mutex.  It is the result of every put and clear that took
\* effect before that instant, those called after the print call began
\* included, and nothing takes effect on the store while print() holds the mutex.
C11_ListingAsOfLock ==
    /\ [](\A t \in Threads :
            pc[t] = "print_unlock" =>
                /\ out[t] = Expected
                /\ \A k \in late[t] : <<k, lastPut[k].v>> \in out[t])
    /\ [][\A t \in Threads :
            pc[t] \in {"print_loop", "print_unlock"} =>
                (lastPut' = lastPut /\ heap'[handle[t]].cache = heap[handle[t]].cache)]_vars

\* a finished listing of two entries, one of them written by a put that was
\* called after the print call began
C11_Witness ==
    \E t \in Threads :
        /\ pc[t] = "print_unlock"
        /\ Cardinality(out[t]) = 2
        /\ Cardinality(late[t]) = 1

\* a key no put ever stores
NeverStored == "never"

\* what get returns through t's reference for a key that was never stored
AbsentResult(t) == MapFindOrEmpty(Cache(t), NeverStored)

\* C12 as stated: the result of get(k) for a key that is present differs from
\* the result of get for a key that was never stored.
C12_AbsentDistinguishable ==
    \A t \in Threads :
        (pc[t] = "get_unlock" /\ key[t] \in DOMAIN Cache(t)) => ret[t] # AbsentResult(t)

\* C12 as amended: get(k) returns the current value when k is present and the
\* empty string when it is not, so that for a key mapped to the empty string it
\* returns what it returns for a key that was never stored.
C12_AbsentIsEmptyString ==
    \A t \in Threads :
        pc[t] = "get_unlock" =>
            /\ key[t] \in DOMAIN lastPut => ret[t] = lastPut[key[t]].v
            /\ key[t] \notin DOMAIN lastPut => ret[t] = ""
            /\ (key[t] \in DOMAIN lastPut /\ lastPut[key[t]].v = "") => ret[t] = AbsentResult(t)

\* a get on a key that is present and mapped to "" has returned ""
C12_Witness ==
    \E t \in Threads :
        /\ pc[t] = "get_unlock"
        /\ key[t] \in DOMAIN Cache(t)
        /\ Cache(t)[key[t]] = ""
        /\ lastPut[key[t]].v = ""
        /\ ret[t] = ""

\* C13: every value size() returns, also with puts and clears of other threads
\* in flight, is the number of distinct keys of the store at the instant of its
\* read, between its call and its return: the number of keys the puts and clears
\* that took effect so far left, with no key counted that a put has inserted but
\* not yet assigned.
C13_SizeOfSomeInstant ==
    \A t \in Threads :
        pc[t] = "size_unlock" =>
            /\ cnt[t] = Cardinality(DOMAIN lastPut)
            /\ cnt[t] = MapSize(Cache(t))
            /\ \A u \in Threads : pc[u] # "put_assign"

\* a size() has answered 2 while a clear and nothing else is in flight
C13_Witness ==
    \E t1, t2 \in Threads :
        /\ pc[t1] = "size_unlock"
        /\ cnt[t1] = 2
        /\ pc[t2] = "clear_lock"

\* the program points at which a thread waits for the mutex
LockPcs == {"put_lock", "get_lock", "clear_lock", "size_lock", "print_lock"}

\* C14 (under FairSpec): with threads and mutex scheduled fairly, every call of
\* getInstance, put, get, clear, size and print returns, or fails with
\* std::invalid_argument and is back with its caller; whenever a call is in
\* progress some thread inside a call can take a step; and no thread waits for a
\* mutex it holds itself.
C14_NoIndefiniteBlocking ==
    /\ \A t \in Threads : (pc[t] # "idle") ~> (pc[t] = "idle")
    /\ [](\A t \in Threads : pc[t] \in LockPcs => This(t).mutex # t)
    /\ []((\E t \in Threads : pc[t] # "idle") =>
             (\E u \in Threads : ENABLED (Step(u) \/ Acquire(u))))

\* a put waits for the mutex that a print in the middle of its listing holds
C14_Witness ==
    \E t1, t2 \in Threads :
        /\ pc[t1] = "put_lock"
        /\ pc[t2] = "print_loop"
        /\ This(t1).mutex = t2

\* C15: no getInstance() call returns before the construction has completed.
\* A thread that is past call_once or holds a reference finds the flag set and
\* the instance pointer on a constructed object; the object is still empty and
\* unlocked when its constructor returns; and a thread that reaches call_once
\* while another is constructing can take no step until that one has finished.
C15_ReturnsAfterConstruction ==
    \A t \in Threads :
        /\ (pc[t] = "deref" \/ handle[t] # Null) =>
              (flag = "done" /\ instance # Null /\ instance \in 1..Len(heap))
        /\ handle[t] # Null => handle[t] \in 1..Len(heap)
        /\ pc[t] = "init_done" => heap[instance] = NewCacheManager
        /\ (pc[t] = "call_once" /\ flag = "running") =>
              ~ENABLED (CallOnceEnter(t) \/ CallOnceSkip(t))

\* one thread is about to construct, another is held at call_once
C15_Witness ==
    \E t1, t2 \in Threads :
        /\ pc[t1] = "init"
        /\ pc[t2] = "call_once"
        /\ flag = "running"
        /\ instance = Null

\* C16: the gate leaves "uninitialized" once, by a getInstance() call entering
\* call_once, and never comes back: no step of any call, failed calls included,
\* unsets the flag, changes a non-null instance pointer or constructs a second
\* object.
C16_GateOneWay ==
    [][/\ flag = "done" => flag' = "done"
       /\ flag = "running" => flag' \in {"running", "done"}
       /\ (flag = "uninit" /\ flag' # "uninit") =>
             (flag' = "running" /\ \E t \in Threads : pc[t] = "call_once" /\ pc'[t] = "init")
       /\ instance # Null => (instance' = instance /\ Len(heap') = Len(heap))
       /\ Len(heap') >= Len(heap)]_vars

\* the gate is initialized, the store holds an entry, a get has just failed on
\* an empty key and a later getInstance() is about to return
C16_Witness ==
    \E t1, t2 \in Threads :
        /\ flag = "done"
        /\ pc[t1] = "get_throw"
        /\ pc[t2] = "deref"
        /\ handle[t2] # Null
        /\ lastPut # EmptyMap

\* the program points inside getInstance()
GetInstancePcs == {"call_once", "init", "init_done", "deref"}

\* C17: getInstance() neither takes nor waits for the store's mutex.  Whoever
\* holds the mutex, a thread in getInstance() can take its next step unless it
\* waits for a construction under way; it holds no mutex, and its steps leave
\* every mutex as it was.
C17_GetInstanceIgnoresMutex ==
    /\ [](\A t \in Threads :
            /\ (pc[t] = "call_once" /\ flag = "uninit") => ENABLED CallOnceEnter(t)
            /\ (pc[t] = "call_once" /\ flag = "done") => ENABLED CallOnceSkip(t)
            /\ pc[t] = "init" => ENABLED InitSingleton(t)
            /\ pc[t] = "init_done" => ENABLED CallOnceFinish(t)
            /\ pc[t] = "deref" => ENABLED GetInstanceReturn(t)
            /\ pc[t] \in GetInstancePcs => \A i \in 1..Len(heap) : heap[i].mutex # t)
    /\ [][\A t \in Threads :
            (pc[t] \in GetInstancePcs /\ pc'[t] # pc[t]) =>
                \A i \in 1..Len(heap) : heap'[i].mutex = heap[i].mutex]_vars

\* a getInstance() call is at call_once, the flag set, while another thread is
\* inside put holding the mutex
C17_Witness ==
    \E t1, t2 \in Threads :
        /\ pc[t1] = "call_once"
        /\ flag = "done"
        /\ pc[t2] = "put_assign"
        /\ heap[instance].mutex = t2

\* C18: the store's mutex is held only by a thread inside a critical section.
\* A put or get that failed on an empty key holds no mutex, and when no thread is
\* inside a critical section every mutex is free for the next caller.
C18_MutexOnlyInCS ==
    /\ \A i \in 1..Len(heap) : heap[i].mutex # Free => pc[heap[i].mutex] \in InCS
    /\ \A t \in Threads :
          pc[t] \in {"put_throw", "get_throw"} => \A i \in 1..Len(heap) : heap[i].mutex # t
    /\ (\A t \in Threads : pc[t] \notin InCS) => \A i \in 1..Len(heap) : heap[i].mutex = Free

\* a put has failed on an empty key and a later caller finds the mutex free
C18_Witness ==
    \E t1, t2 \in Threads :
        /\ pc[t1] = "put_throw"
        /\ pc[t2] = "size_lock"
        /\ heap[instance].mutex = Free
        /\ ENABLED SizeLock(t2)

\* the program points inside get, size and print
ReadPcs ==
    {"get_lock", "get_find", "get_unlock", "size_lock", "size_body", "size_unlock",
     "print_lock", "print_loop", "print_unlock"}

\* C19: get, size and print are read-only.  No step by which a thread enters,
\* continues or leaves one of them (a get that throws included) changes the key
\* set or any value of any store; a get on a key that is not present inserts
\* nothing, so the number of entries is the same before and after it.
C19_ReadsLeaveStore ==
    [][\A t \in Threads :
          (pc'[t] # pc[t] /\ (pc[t] \in ReadPcs \/ pc'[t] \in ReadPcs \cup {"get_throw"})) =>
              /\ \A i \in 1..Len(heap) : heap'[i].cache = heap[i].cache
              /\ Len(heap') = Len(heap)
              /\ lastPut' = lastPut]_vars

\* a get has looked up a key that is not present in a store of one entry
C19_Witness ==
    \E t \in Threads :
        /\ pc[t] = "get_unlock"
        /\ key[t] \notin DOMAIN Cache(t)
        /\ MapSize(Cache(t)) = 1
        /\ ret[t] = ""

\* C20: put(k, v) with a non-empty key changes only the entry for k.  Its
\* insertion and its assignment leave every other key present with its value,
\* the insertion adds exactly one entry when k was absent and none when it was
\* present, the assignment adds none, and the put's other steps (call, locking,
\* unlocking) leave the map as it was.
C20_PutFrame ==
    [][\A t \in Threads :
          (pc'[t] # pc[t] /\ handle[t] # Null) =>
              LET c == heap[handle[t]].cache
                  d == heap'[handle[t]].cache
              IN  /\ pc[t] \in {"put_index", "put_assign"} =>
                        \A k2 \in ((DOMAIN c) \cup (DOMAIN d)) \ {key[t]} :
                            k2 \in DOMAIN c /\ k2 \in DOMAIN d /\ d[k2] = c[k2]
                  /\ pc[t] = "put_index" =>
                        MapSize(d) = MapSize(c) + (IF key[t] \in DOMAIN c THEN 0 ELSE 1)
                  /\ pc[t] = "put_assign" => (MapSize(d) = MapSize(c) /\ d[key[t]] = val[t])
                  /\ (pc'[t] = "put_lock" \/ pc[t] \in {"put_lock", "put_unlock"}) => d = c]_vars

\* a put on a key that was absent has inserted it beside the other key, which
\* holds "x", and is about to assign ""
C20_Witness ==
    \E t \in Threads :
        /\ pc[t] = "put_assign"
        /\ key[t] \notin DOMAIN lastPut
        /\ val[t] = ""
        /\ MapSize(Cache(t)) = 2
        /\ \E k2 \in DOMAIN lastPut : Cache(t)[k2] = "x"

====
